---- MODULE Spec2Model ----
(***************************************************************************)
(* A model of the Bi-LSTM CRF tagger (yapycrf/modules/tagger.py) and of    *)
(* the dataset loader (pycrf/io/dataset.py).                               *)
(*                                                                         *)
(* Tensors are sequences (1-based here, 0-based in the source); a batch    *)
(* is a sequence of batch elements.  Label ids are 0..NumLabels-1.         *)
(* Scores are integers.  A log-sum-exp is carried in the exponentiated     *)
(* domain with base 2 (Exp(x) = 2^x, exact), so "log-partition >= score"   *)
(* reads "partition >= Exp(score)".                                        *)
(***************************************************************************)
EXTENDS Integers, Sequences, FiniteSets, TLC

VARIABLES tagger, ctor, op, inp, out, source, target, loaded

vars == <<tagger, ctor, op, inp, out, source, target, loaded>>

----------------------------------------------------------------------------
(* Bounds of the model *)

\* longest sentence
MaxLen == 2
\* largest vocabulary or layer size offered to the constructor
MaxSize == 3

\* most lines of a file
MaxLines == 3
\* examples a dataset holds before the calls stop
MaxExamples == 2
\* largest limit given to load_file
MaxLimit == 2

\* strings are sequences of characters
\* the labels of the vocabulary; their ids are 0..NumLabels-1
LabelNames == {<<"O">>, <<"B">>}
NumLabels == Cardinality(LabelNames)
Labels == 0..(NumLabels - 1)

\* the values a transition, a bias or an emission score takes
Scores == {0, 1}

----------------------------------------------------------------------------
(* Helpers *)

Min(a, b) == IF a <= b THEN a ELSE b

RECURSIVE Exp(_)
Exp(x) == IF x <= 0 THEN 1 ELSE 2 * Exp(x - 1)

RECURSIVE SumOver(_, _)
SumOver(f, S) ==
  IF S = {} THEN 0
  ELSE LET x == CHOOSE y \in S : TRUE IN f[x] + SumOver(f, S \ {x})

MaxOf(s) == IF Len(s) = 0 THEN 0
            ELSE CHOOSE m \in {s[i] : i \in 1..Len(s)} : \A i \in 1..Len(s) : s[i] <= m

Float(b) == IF b THEN 1 ELSE 0

CountTrue(row) == Cardinality({t \in 1..Len(row) : row[t]})

Raise(where) == [raised |-> where, value |-> <<>>]
Return(v) == [raised |-> "none", value |-> v]

----------------------------------------------------------------------------
(* yapycrf.modules.utils.sequence_mask as called with lens alone: one row  *)
(* per entry of lens, as wide as the longest entry.                        *)

sequence_mask(lens) ==
  [b \in 1..Len(lens) |-> [t \in 1..MaxOf(lens) |-> t <= lens[b]]]

----------------------------------------------------------------------------
(* The CRF layer: allennlp ConditionalRandomField, as the Tagger calls it. *)

Sentinel == -10000

start_tag == NumLabels
end_tag == NumLabels + 1
AugTags == 0..(NumLabels + 1)

\* torch.max(x, 0): the first index holding the maximum
ArgMax(f, S) ==
  CHOOSE i \in S : (\A j \in S : f[j] <= f[i]) /\ (\A j \in S : j < i => f[j] < f[i])

RECURSIVE viterbi_forward(_, _, _, _, _)
viterbi_forward(tag_sequence, transition_matrix, timestep, path_score, path_indices) ==
  IF timestep > Len(tag_sequence)
  THEN [path_score |-> path_score, path_indices |-> path_indices]
  ELSE LET tags == DOMAIN path_score
           summed(j) == [i \in tags |-> path_score[i] + transition_matrix[i][j]]
           paths == [j \in tags |-> ArgMax(summed(j), tags)]
           scores == [j \in tags |-> summed(j)[paths[j]]]
       IN viterbi_forward(tag_sequence, transition_matrix, timestep + 1,
                          [j \in tags |-> tag_sequence[timestep][j] + scores[j]],
                          Append(path_indices, paths))

RECURSIVE viterbi_backtrace(_, _, _)
viterbi_backtrace(path_indices, k, path) ==
  IF k = 0 THEN path
  ELSE viterbi_backtrace(path_indices, k - 1, <<path_indices[k][Head(path)]>> \o path)

viterbi_decode(tag_sequence, transition_matrix) ==
  LET fw == viterbi_forward(tag_sequence, transition_matrix, 2, tag_sequence[1], <<>>)
      best_path == ArgMax(fw.path_score, DOMAIN fw.path_score)
  IN viterbi_backtrace(fw.path_indices, Len(fw.path_indices), <<best_path>>)

\* the (num_tags + 2) x (num_tags + 2) matrix viterbi_tags builds
AugTransitions(crf) ==
  [i \in AugTags |-> [j \in AugTags |->
     IF i \in Labels /\ j \in Labels THEN crf.transitions[i][j]
     ELSE IF i = start_tag /\ j \in Labels THEN crf.start_transitions[j]
     ELSE IF i \in Labels /\ j = end_tag THEN crf.end_transitions[i]
     ELSE Sentinel]]

\* tag_sequence[:(sequence_length + 2)] for one batch element
TagSequence(prediction, sequence_length) ==
  [r \in 1..(sequence_length + 2) |-> [j \in AugTags |->
     IF r = 1 THEN (IF j = start_tag THEN 0 ELSE Sentinel)
     ELSE IF r = sequence_length + 2 THEN (IF j = end_tag THEN 0 ELSE Sentinel)
     ELSE IF j \in Labels THEN prediction[r - 1][j] ELSE Sentinel]]

ViterbiPath(crf, prediction, sequence_length) ==
  LET viterbi_path == viterbi_decode(TagSequence(prediction, sequence_length),
                                     AugTransitions(crf))
  IN SubSeq(viterbi_path, 2, Len(viterbi_path) - 1)

\* zip(logits, mask): as many paths as the shorter of the two batches
viterbi_tags(crf, logits, mask) ==
  LET pairs == 1..Min(Len(logits), Len(mask))
  IN IF \E b \in pairs : CountTrue(mask[b]) > Len(logits[b])
     THEN Raise("crf.viterbi_tags")
     ELSE Return([b \in pairs |-> ViterbiPath(crf, logits[b], CountTrue(mask[b]))])


\* log_denominator: the forward recurrence, alpha kept as Exp of the source's
\* alpha.  mask[i] is read for every step i >= 1 of the emission tensor.
RECURSIVE alpha_loop(_, _, _, _, _)
alpha_loop(crf, logits_b, mask, i, alpha) ==
  IF i > Len(logits_b) THEN Return(alpha)
  ELSE IF i > Len(mask[1]) THEN Raise("crf._input_likelihood")
  ELSE IF Len(mask) # 1 THEN Raise("crf._input_likelihood")
  ELSE alpha_loop(crf, logits_b, mask, i + 1,
         IF mask[1][i]
         THEN [l \in Labels |->
                 SumOver([p \in Labels |->
                            alpha[p] * Exp(logits_b[i][l] + crf.transitions[p][l])],
                         Labels)]
         ELSE alpha)

_input_likelihood(crf, logits, mask) ==
  LET alpha == [l \in Labels |-> Exp(crf.start_transitions[l] + logits[1][1][l])]
      last == alpha_loop(crf, logits[1], mask, 2, alpha)
  IN IF last.raised # "none" THEN last
     ELSE Return(SumOver([l \in Labels |-> last.value[l] * Exp(crf.end_transitions[l])],
                         Labels))

\* log_numerator: the score of the given tags
RECURSIVE joint_loop(_, _, _, _, _)
joint_loop(crf, logits_b, tags_b, mask, i) ==
  IF i > Len(logits_b) - 1 THEN 0
  ELSE crf.transitions[tags_b[i]][tags_b[i + 1]] * Float(mask[1][i + 1])
       + logits_b[i][tags_b[i]] * Float(mask[1][i])
       + joint_loop(crf, logits_b, tags_b, mask, i + 1)

_joint_likelihood(crf, logits, tags, mask) ==
  LET sequence_length == Len(logits[1])
      last_tag_index == CountTrue(mask[1])
  IN IF Len(tags[1]) = 0 THEN Raise("crf._joint_likelihood")
     ELSE IF sequence_length >= 2
             /\ (Len(tags[1]) < sequence_length \/ Len(mask[1]) < sequence_length)
     THEN Raise("crf._joint_likelihood")
     ELSE IF Len(mask) # Len(logits) THEN Raise("crf._joint_likelihood")
     ELSE IF last_tag_index < 1 \/ last_tag_index > Len(tags[1])
     THEN Raise("crf._joint_likelihood")
     ELSE LET last_tags == tags[1][last_tag_index]
          IN Return(crf.start_transitions[tags[1][1]]
                    + joint_loop(crf, logits[1], tags[1], mask, 1)
                    + crf.end_transitions[last_tags]
                    + logits[1][sequence_length][last_tags]
                      * Float(mask[1][Len(mask[1])]))

\* ConditionalRandomField.forward: sum(log_numerator - log_denominator), kept
\* as the ratio it is the logarithm of: num = Exp(log_numerator) over
\* den = Exp(log_denominator), the partition function
crf_forward(crf, inputs, tags, mask) ==
  LET log_denominator == _input_likelihood(crf, inputs, mask)
      log_numerator == _joint_likelihood(crf, inputs, tags, mask)
  IN IF log_denominator.raised # "none" THEN log_denominator
     ELSE IF log_numerator.raised # "none" THEN log_numerator
     ELSE Return([num |-> Exp(log_numerator.value), den |-> log_denominator.value])

\* crf.transition_score(labs, lens): start bias, transitions between valid
\* positions, end bias at the last valid position
RECURSIVE transition_sum(_, _, _)
transition_sum(crf, labs, t) ==
  IF t < 2 THEN 0
  ELSE crf.transitions[labs[t - 1]][labs[t]] + transition_sum(crf, labs, t - 1)

transition_score(crf, labs, lens) ==
  crf.start_transitions[labs[1][1]] + transition_sum(crf, labs[1], lens[1])
  + crf.end_transitions[labs[1][lens[1]]]

----------------------------------------------------------------------------
(* Tagger *)

Attributes == {"vocab", "char_lstm", "crf", "rnn", "rnn_output_size", "rnn_to_crf"}

\* no Tagger: what the caller holds before construction and after a
\* construction that raised
NoTagger == [created |-> {}]

TaggerObject(vocab, char_lstm, crf, hidden_dim, bidirectional) ==
  LET rnn_output_size == IF bidirectional THEN hidden_dim * 2 ELSE hidden_dim
  IN [created |-> Attributes,
      vocab |-> vocab,
      char_lstm |-> char_lstm,
      crf |-> crf,
      rnn |-> [input_size |-> vocab.word_vec_dim + char_lstm.output_size,
               hidden_size |-> hidden_dim,
               bidirectional |-> bidirectional],
      rnn_output_size |-> rnn_output_size,
      rnn_to_crf |-> [in_features |-> rnn_output_size,
                      out_features |-> vocab.n_labels]]

\* the constructor without its second assert
Tagger_init_one_assert(vocab, char_lstm, crf, hidden_dim, bidirectional) ==
  IF vocab.n_chars # char_lstm.n_chars THEN [raised |-> "AssertionError", self |-> NoTagger]
  ELSE [raised |-> "none",
        self |-> TaggerObject(vocab, char_lstm, crf, hidden_dim, bidirectional)]

\* Tagger.__init__: the two asserts come before any attribute is set
Tagger_init(vocab, char_lstm, crf, hidden_dim, bidirectional) ==
  IF vocab.n_chars # char_lstm.n_chars THEN [raised |-> "AssertionError", self |-> NoTagger]
  ELSE IF vocab.n_labels # crf.num_tags THEN [raised |-> "AssertionError", self |-> NoTagger]
  ELSE [raised |-> "none",
        self |-> TaggerObject(vocab, char_lstm, crf, hidden_dim, bidirectional)]

\* torch.cat([char_feats, words], dim=-1) needs as many rows on both sides;
\* emit stands for what the recurrent layer and the projection yield.
_feats(chars, words, emit) ==
  IF chars # words THEN Raise("_feats") ELSE Return(<<emit>>)

\* decoding each position on its own, by its best emission score
predict_argmax(tg, chars, words, emit, lens_given, lens_arg) ==
  LET lens == IF lens_given THEN lens_arg ELSE <<words>>
      feats == _feats(chars, words, emit)
  IN IF feats.raised # "none" THEN feats
     ELSE IF lens[1] > words THEN Raise("crf.viterbi_tags")
     ELSE Return(<<[t \in 1..lens[1] |-> ArgMax(emit[t], Labels)]>>)

predict(tg, chars, words, emit, lens_given, lens_arg) ==
  LET lens == IF lens_given THEN lens_arg ELSE <<words>>
      mask == sequence_mask(lens)
      feats == _feats(chars, words, emit)
  IN IF feats.raised # "none" THEN feats
     ELSE viterbi_tags(tg.crf, feats.value, mask)


\* the log-likelihood returned as it is, not negated
forward_not_negated(tg, chars, words, emit, labs_arg, lens_given, lens_arg) ==
  LET lens == IF lens_given THEN lens_arg ELSE <<words>>
      feats == _feats(chars, words, emit)
  IN IF feats.raised # "none" THEN feats
     ELSE crf_forward(tg.crf, feats.value, <<labs_arg>>, sequence_mask(lens))

\* -1. * loglik: the negative of log(num / den) is log(den / num)
forward(tg, chars, words, emit, labs_arg, lens_given, lens_arg) ==
  LET lens == IF lens_given THEN lens_arg ELSE <<words>>
      mask == sequence_mask(lens)
      labs == <<labs_arg>>
      feats == _feats(chars, words, emit)
      loglik == crf_forward(tg.crf, feats.value, labs, mask)
  IN IF feats.raised # "none" THEN feats
     ELSE IF loglik.raised # "none" THEN loglik
     ELSE Return([num |-> loglik.value.den, den |-> loglik.value.num])

RECURSIVE masked_sum(_, _, _, _)
masked_sum(row, labs_b, mask_b, j) ==
  IF j = 0 THEN 0
  ELSE row[IF Len(labs_b) = 1 THEN 1 ELSE j][labs_b[IF Len(labs_b) = 1 THEN 1 ELSE j]]
         * Float(mask_b[IF Len(mask_b) = 1 THEN 1 ELSE j])
       + masked_sum(row, labs_b, mask_b, j - 1)

\* scores * mask broadcasts a dimension of size 1 and raises on any other
\* difference of sizes
_score(tg, feats, labs, lens) ==
  LET mask == sequence_mask(lens)
      L == Len(labs[1])
      W == Len(mask[1])
  IN IF L # W /\ L # 1 /\ W # 1 THEN Raise("_score")
     ELSE Return(masked_sum(feats[1], labs[1], mask[1], IF L = 1 THEN W ELSE L)
                 + transition_score(tg.crf, labs, lens))

----------------------------------------------------------------------------
(* Inputs *)

EmitTables(L) == [1..L -> [Labels -> Scores]]

LabelSeqs(M) == [1..M -> Labels]

\* emission tables whose rows are all the same
RowTables(L) == {[t \in 1..L |-> row] : row \in [Labels -> Scores]}

ZeroTable(L) == [t \in 1..L |-> [l \in Labels |-> 0]]

LensArgs == {<<k>> : k \in 0..(MaxLen + 1)} \cup {<<k, k>> : k \in 1..MaxLen}

CrfParams ==
  [num_tags : {NumLabels},
   transitions : [Labels -> [Labels -> Scores]],
   start_transitions : [Labels -> Scores],
   end_transitions : [Labels -> Scores]]

\* a CRF layer of n tags with all scores zero
ZeroCrf(n) ==
  [num_tags |-> n,
   transitions |-> [i \in 0..(n - 1) |-> [j \in 0..(n - 1) |-> 0]],
   start_transitions |-> [i \in 0..(n - 1) |-> 0],
   end_transitions |-> [i \in 0..(n - 1) |-> 0]]

NoCall == [called |-> FALSE, raised |-> "none",
           vocab |-> [n_chars |-> 0, n_labels |-> 0, word_vec_dim |-> 0],
           char_lstm |-> [n_chars |-> 0, output_size |-> 0],
           num_tags |-> 0, hidden_dim |-> 0, bidirectional |-> FALSE]

NoInput == [chars |-> 0, words |-> 0, emit |-> <<>>, labs |-> <<>>,
            lens_given |-> FALSE, lens |-> <<>>]

NoLoad == [op |-> "init", raised |-> "none", lines |-> <<>>, limit_given |-> FALSE,
           limit |-> 0, before |-> [source |-> <<>>, target |-> <<>>], next_id |-> 1]

\* the Taggers a successful construction yields over the label set
Taggers ==
  {Tagger_init([n_chars |-> 1, n_labels |-> NumLabels, word_vec_dim |-> 1],
               [n_chars |-> 1, output_size |-> 1], c, 1, TRUE).self : c \in CrfParams}

Init ==
  /\ tagger \in Taggers
  /\ ctor = NoCall
  /\ op = "idle"
  /\ inp = NoInput
  /\ out = Return(<<>>)
  /\ source = <<>>
  /\ target = <<>>
  /\ loaded = NoLoad

\* predict writing the matrix viterbi_tags fills back into the CRF layer
PredictInPlace ==
  \E words \in 1..MaxLen :
  \E emit \in EmitTables(words) :
    /\ op = "idle"
    /\ op' = "predict"
    /\ inp' = [chars |-> words, words |-> words, emit |-> emit, labs |-> <<>>,
               lens_given |-> FALSE, lens |-> <<>>]
    /\ out' = predict(tagger, words, words, emit, FALSE, <<>>)
    /\ tagger' = [tagger EXCEPT !.crf.transitions =
                     [i \in Labels |-> [j \in Labels |-> Sentinel]]]
    /\ UNCHANGED <<ctor, source, target, loaded>>

Predict ==
  \E words \in 1..MaxLen, lens_given \in BOOLEAN :
  \E chars \in {words, words + 1}, lens \in (IF lens_given THEN LensArgs ELSE {<<>>}) :
  \E emit \in (IF chars = words THEN EmitTables(words) ELSE {<<>>}) :
    /\ op = "idle"
    /\ op' = "predict"
    /\ inp' = [chars |-> chars, words |-> words, emit |-> emit, labs |-> <<>>,
               lens_given |-> lens_given, lens |-> lens]
    /\ out' = predict(tagger, chars, words, emit, lens_given, lens)
    /\ UNCHANGED <<tagger, ctor, source, target, loaded>>

Consistent(words, labs, lens_given, lens) ==
  Len(labs) = words /\ (lens_given => lens = <<words>>)

Forward ==
  \E words \in 1..MaxLen, lens_given \in BOOLEAN :
  \E chars \in {words, words + 1}, lens \in (IF lens_given THEN LensArgs ELSE {<<>>}) :
  \E M \in {m \in (words - 1)..(words + 1) : m >= 1} :
  \E labs \in LabelSeqs(M) :
  \E emit \in (IF chars # words THEN {<<>>}
               ELSE IF Consistent(words, labs, lens_given, lens) THEN EmitTables(words)
               ELSE {ZeroTable(words)}) :
    /\ op = "idle"
    /\ op' = "forward"
    /\ inp' = [chars |-> chars, words |-> words, emit |-> emit, labs |-> labs,
               lens_given |-> lens_given, lens |-> lens]
    /\ out' = forward(tagger, chars, words, emit, labs, lens_given, lens)
    /\ UNCHANGED <<tagger, ctor, source, target, loaded>>

Score ==
  \E words \in 1..MaxLen :
  \E emit \in RowTables(words), labs \in LabelSeqs(words), k \in 1..words :
    /\ op = "idle"
    /\ op' = "_score"
    /\ inp' = [chars |-> words, words |-> words, emit |-> emit, labs |-> labs,
               lens_given |-> TRUE, lens |-> <<k>>]
    /\ out' = _score(tagger, <<emit>>, <<labs>>, <<k>>)
    /\ UNCHANGED <<tagger, ctor, source, target, loaded>>

\* the call has returned or raised; the caller goes on to its next call
ReturnToCaller ==
  /\ op # "idle"
  /\ op' = "idle"
  /\ inp' = NoInput
  /\ out' = Return(<<>>)
  /\ UNCHANGED <<tagger, ctor, source, target, loaded>>

Next == Predict \/ Forward \/ Score \/ ReturnToCaller

Spec == Init /\ [][Next]_vars

----------------------------------------------------------------------------
(* Construction *)

InitCtor ==
  /\ tagger = NoTagger
  /\ ctor = NoCall
  /\ op = "idle"
  /\ inp = NoInput
  /\ out = Return(<<>>)
  /\ source = <<>>
  /\ target = <<>>
  /\ loaded = NoLoad

TaggerInit ==
  \E vn \in 1..MaxSize, cn \in 1..MaxSize, vl \in 1..MaxSize, ct \in 1..MaxSize :
  \E hidden_dim \in 1..MaxSize, bidirectional \in BOOLEAN :
    LET vocab == [n_chars |-> vn, n_labels |-> vl, word_vec_dim |-> 1]
        char_lstm == [n_chars |-> cn, output_size |-> 1]
        res == Tagger_init(vocab, char_lstm, ZeroCrf(ct), hidden_dim, bidirectional)
    IN /\ ~ctor.called
       /\ ctor' = [called |-> TRUE, raised |-> res.raised, vocab |-> vocab,
                   char_lstm |-> char_lstm, num_tags |-> ct,
                   hidden_dim |-> hidden_dim, bidirectional |-> bidirectional]
       /\ tagger' = res.self
       /\ UNCHANGED <<op, inp, out, source, target, loaded>>

NextCtor == TaggerInit

SpecInit == InitCtor /\ [][NextCtor]_vars

----------------------------------------------------------------------------
(* Vocab, as load_file uses it *)

labels_stoi == (<<"O">> :> 0) @@ (<<"B">> :> 1)
chars_stoi == ("a" :> 0) @@ ("b" :> 1)

\* label names to the tensor of their ids
labs2tensor(labs) == [i \in 1..Len(labs) |-> labels_stoi[labs[i]]]

\* tokens to one tensor of character ids per word
sent2tensor(sent) ==
  [i \in 1..Len(sent) |-> [j \in 1..Len(sent[i]) |-> chars_stoi[sent[i][j]]]]

----------------------------------------------------------------------------
(* Dataset.  An entry of source or target is [id, tensor]: id is a ghost   *)
(* field naming the example the entry was added for.                       *)

Whitespace == {" ", "\t", "\n"}

RECURSIVE rstrip(_)
rstrip(line) ==
  IF Len(line) > 0 /\ line[Len(line)] \in Whitespace
  THEN rstrip(SubSeq(line, 1, Len(line) - 1))
  ELSE line

RECURSIVE split_from(_, _, _, _, _)
split_from(line, sep, i, field, fields) ==
  IF i > Len(line) THEN Append(fields, field)
  ELSE IF line[i] = sep THEN split_from(line, sep, i + 1, <<>>, Append(fields, field))
  ELSE split_from(line, sep, i + 1, Append(field, line[i]), fields)

split(line, sep) == split_from(line, sep, 1, <<>>, <<>>)

append(ds, src, tgt, id) ==
  [raised |-> "none",
   source |-> Append(ds.source, [id |-> id, tensor |-> src]),
   target |-> Append(ds.target, [id |-> id, tensor |-> tgt])]

\* zip(*combined) of an empty list has nothing to unpack
shuffle(ds, perm) ==
  LET combined == [i \in 1..Min(Len(ds.source), Len(ds.target)) |->
                     <<ds.source[i], ds.target[i]>>]
  IN IF Len(combined) = 0
     THEN [raised |-> "ValueError", source |-> ds.source, target |-> ds.target]
     ELSE [raised |-> "none",
           source |-> [i \in 1..Len(combined) |-> combined[perm[i]][1]],
           target |-> [i \in 1..Len(combined) |-> combined[perm[i]][2]]]

\* the loop over datafile.readlines(); fail names the conversion call that
\* raises, if one does: the call made for sentence fail.at by fail.call
RECURSIVE load_loop(_, _, _, _, _, _, _, _, _, _)
load_loop(lines, n, src, tgt, i, limit_given, limit, ds, fail, id) ==
  IF n > Len(lines) THEN [raised |-> "none", source |-> ds.source, target |-> ds.target]
  ELSE LET line_list == split(rstrip(lines[n]), "\t") IN
    IF Len(line_list) = 1
    THEN IF fail.at = i + 1 /\ fail.call = "labs2tensor"
         THEN [raised |-> "labs2tensor", source |-> ds.source, target |-> ds.target]
         ELSE LET targets == Append(ds.target, [id |-> id, tensor |-> labs2tensor(tgt)])
              IN IF fail.at = i + 1 /\ fail.call = "sent2tensor"
                 THEN [raised |-> "sent2tensor", source |-> ds.source, target |-> targets]
                 ELSE LET sources == Append(ds.source,
                                            [id |-> id, tensor |-> sent2tensor(src)])
                      IN IF limit_given /\ i + 1 = limit
                         THEN [raised |-> "none", source |-> sources, target |-> targets]
                         ELSE load_loop(lines, n + 1, <<>>, <<>>, i + 1, limit_given,
                                        limit, [source |-> sources, target |-> targets],
                                        fail, id + 1)
    ELSE load_loop(lines, n + 1, Append(src, line_list[1]), Append(tgt, line_list[2]),
                   i, limit_given, limit, ds, fail, id)

load_file(ds, lines, limit_given, limit, fail, id) ==
  load_loop(lines, 1, <<>>, <<>>, 0, limit_given, limit, ds, fail, id)

len(ds) == Len(ds.source)
bool(ds) == Len(ds.source) > 0
iter(ds) == [i \in 1..Min(Len(ds.source), Len(ds.target)) |-> <<ds.source[i], ds.target[i]>>]

----------------------------------------------------------------------------
(* Files and the calls on a Dataset *)

Tokens == {<<"a">>, <<"b", "a">>}

TokenLines == {tok \o <<"\t">> \o lab \o <<"\n">> : tok \in Tokens, lab \in LabelNames}
BlankLine == <<"\n">>

Files == UNION {[1..n -> TokenLines \cup {BlankLine}] : n \in 0..MaxLines}

NoFail == [at |-> 0, call |-> "none"]
Fails == {NoFail} \cup [at : 1..MaxLines, call : {"labs2tensor", "sent2tensor"}]

Perms(n) == {p \in [1..n -> 1..n] : \A i, j \in 1..n : p[i] = p[j] => i = j}

Dataset == [source |-> source, target |-> target]

InitDataset ==
  /\ tagger = NoTagger
  /\ ctor = NoCall
  /\ op = "idle"
  /\ inp = NoInput
  /\ out = Return(<<>>)
  /\ source = <<>>
  /\ target = <<>>
  /\ loaded = NoLoad

DatasetAppend ==
  \E tok \in Tokens, lab \in LabelNames :
    LET res == append(Dataset, sent2tensor(<<tok>>), labs2tensor(<<lab>>), loaded.next_id)
    IN /\ loaded.next_id <= MaxExamples
       /\ source' = res.source
       /\ target' = res.target
       /\ loaded' = [NoLoad EXCEPT !.op = "append", !.before = Dataset,
                                   !.next_id = loaded.next_id + 1]
       /\ UNCHANGED <<tagger, ctor, op, inp, out>>

DatasetShuffle ==
  \E perm \in Perms(Min(Len(source), Len(target))) :
    LET res == shuffle(Dataset, perm)
    IN /\ source' = res.source
       /\ target' = res.target
       /\ loaded' = [NoLoad EXCEPT !.op = "shuffle", !.raised = res.raised,
                                   !.before = Dataset, !.next_id = loaded.next_id]
       /\ UNCHANGED <<tagger, ctor, op, inp, out>>

LoadFile ==
  \E lines \in Files, limit_given \in BOOLEAN, fail \in Fails :
  \E limit \in (IF limit_given THEN 0..MaxLimit ELSE {0}) :
    LET res == load_file(Dataset, lines, limit_given, limit, fail, loaded.next_id)
    IN /\ loaded.next_id <= MaxExamples
       /\ source' = res.source
       /\ target' = res.target
       /\ loaded' = [op |-> "load_file", raised |-> res.raised, lines |-> lines,
                     limit_given |-> limit_given, limit |-> limit, before |-> Dataset,
                     next_id |-> loaded.next_id + Len(lines)]
       /\ UNCHANGED <<tagger, ctor, op, inp, out>>

NextDataset == DatasetAppend \/ DatasetShuffle \/ LoadFile

SpecDataset == InitDataset /\ [][NextDataset]_vars

----------------------------------------------------------------------------
(* Properties of the Tagger *)

\* the score of a label sequence over its first k positions: start bias,
\* emissions, transitions and end bias
RECURSIVE PathSum(_, _, _, _)
PathSum(crf, emit, labs, t) ==
  IF t = 0 THEN 0
  ELSE emit[t][labs[t]]
       + (IF t >= 2 THEN crf.transitions[labs[t - 1]][labs[t]] ELSE 0)
       + PathSum(crf, emit, labs, t - 1)

SequenceScore(crf, emit, labs, k) ==
  crf.start_transitions[labs[1]] + PathSum(crf, emit, labs, k)
  + crf.end_transitions[labs[k]]

Returned(o) == op = o /\ out.raised = "none"

LensOf(i) == IF i.lens_given THEN i.lens ELSE <<i.words>>

C2_LossNonNegative ==
  (Returned("forward") /\ Len(inp.labs) = inp.words) =>
    /\ out.value.num >= out.value.den
    /\ out.value.den = Exp(SequenceScore(tagger.crf, inp.emit, inp.labs, inp.words))
    /\ \A labs \in LabelSeqs(inp.words) :
         out.value.num >= Exp(SequenceScore(tagger.crf, inp.emit, labs, inp.words))

C2_Witness ==
  /\ Returned("forward")
  /\ Len(inp.labs) = inp.words
  /\ inp.words = MaxLen
  /\ out.value.num > out.value.den

\* emission scores with every position from k on overwritten
Padded(emit, k) ==
  [t \in 1..Len(emit) |-> IF t <= k THEN emit[t] ELSE [l \in Labels |-> 0]]

\* C3: the result of an operation does not depend on the emission scores
\* at positions beyond the length given for the sequence.
C3_MaskingNonInterference ==
  LET k == LensOf(inp)[1]
      emit == Padded(inp.emit, k)
  IN /\ (op = "predict" /\ inp.chars = inp.words) =>
          out = predict(tagger, inp.chars, inp.words, emit, inp.lens_given, inp.lens)
     /\ (op = "forward" /\ inp.chars = inp.words) =>
          out = forward(tagger, inp.chars, inp.words, emit, inp.labs,
                        inp.lens_given, inp.lens)
     /\ op = "_score" => out = _score(tagger, <<emit>>, <<inp.labs>>, inp.lens)

\* C4: predict returns one path per entry of lens, the path of entry b
\* holding lens[b] labels.
C4_OnePathPerLength ==
  Returned("predict") =>
    /\ Len(out.value) = Len(LensOf(inp))
    /\ \A b \in 1..Len(out.value) :
         /\ Len(out.value[b]) = LensOf(inp)[b]
         /\ \A t \in 1..Len(out.value[b]) : out.value[b][t] \in Labels

InconsistentShapes ==
  \/ inp.chars # inp.words
  \/ op = "forward" /\ Len(inp.labs) # inp.words
  \/ \E b \in 1..Len(LensOf(inp)) : LensOf(inp)[b] > inp.words

\* where a call can raise before a dynamic program of the CRF has started
BeforeDp == {"_feats", "crf.viterbi_tags"}

\* C6: a call with inconsistent dimensions raises before the dynamic
\* program of the CRF is entered, and returns nothing.
C6_ShapeErrorBeforeCrf ==
  (op \in {"predict", "forward"} /\ InconsistentShapes) => out.raised \in BeforeDp

\* C7: a sequence of length 0 is rejected by predict and by forward.
C7_ZeroLengthRejected ==
  (op \in {"predict", "forward"} /\ \E b \in 1..Len(LensOf(inp)) : LensOf(inp)[b] = 0)
    => out.raised # "none"

\* C8: no call changes the Tagger: its parameters and its vocabulary are
\* those of the construction.
C8_ParametersUnchanged == [][tagger' = tagger]_vars

C8_Witness == Returned("forward") /\ inp.words = MaxLen

\* C5: construction succeeds exactly when the character counts and the
\* label counts agree; when it raises, no attribute has been set and the
\* caller holds no Tagger.
C5_ConstructionValidates ==
  ctor.called =>
    /\ ctor.raised = "none" <=>
         (ctor.vocab.n_chars = ctor.char_lstm.n_chars
          /\ ctor.vocab.n_labels = ctor.num_tags)
    /\ ctor.raised # "none" => tagger = NoTagger
    /\ ctor.raised = "none" =>
         /\ tagger.created = Attributes
         /\ tagger.vocab.n_chars = tagger.char_lstm.n_chars
         /\ tagger.vocab.n_labels = tagger.crf.num_tags

C5_Witness ==
  /\ ctor.called
  /\ ctor.raised # "none"
  /\ ctor.vocab.n_chars = ctor.char_lstm.n_chars
  /\ ctor.vocab.n_labels # ctor.num_tags

----------------------------------------------------------------------------
(* Properties of the Dataset *)

IsBlank(line) == Len(rstrip(line)) = 0

\* the sentences of a file: the runs of token lines between blank lines
RECURSIVE SentencesFrom(_, _, _, _)
SentencesFrom(lines, n, current, done) ==
  IF n > Len(lines) THEN (IF Len(current) = 0 THEN done ELSE Append(done, current))
  ELSE IF IsBlank(lines[n])
       THEN SentencesFrom(lines, n + 1, <<>>,
                          IF Len(current) = 0 THEN done ELSE Append(done, current))
       ELSE SentencesFrom(lines, n + 1, Append(current, lines[n]), done)

FileSentences(lines) == SentencesFrom(lines, 1, <<>>, <<>>)

TokensOf(sentence) == [i \in 1..Len(sentence) |-> split(rstrip(sentence[i]), "\t")[1]]
LabelsOf(sentence) == [i \in 1..Len(sentence) |-> split(rstrip(sentence[i]), "\t")[2]]

\* the format of the docstring: every sentence is followed by one blank line
DocFormat(lines) ==
  /\ Len(lines) >= 1
  /\ IsBlank(lines[Len(lines)])
  /\ ~IsBlank(lines[1])
  /\ \A n \in 1..(Len(lines) - 1) : ~(IsBlank(lines[n]) /\ IsBlank(lines[n + 1]))

\* C9: load_file on a file of that format appends one pair per sentence, in
\* file order and built from that sentence, min(limit, sentences) of them
\* when limit is set, and leaves the examples already held alone.
C9_LoadFileAppendsSentences ==
  (loaded.op = "load_file" /\ loaded.raised = "none" /\ DocFormat(loaded.lines)) =>
    LET sents == FileSentences(loaded.lines)
        n == IF loaded.limit_given THEN Min(loaded.limit, Len(sents)) ELSE Len(sents)
        bs == Len(loaded.before.source)
        bt == Len(loaded.before.target)
    IN /\ Len(source) = bs + n
       /\ Len(target) = bt + n
       /\ SubSeq(source, 1, bs) = loaded.before.source
       /\ SubSeq(target, 1, bt) = loaded.before.target
       /\ \A i \in 1..n :
            /\ source[bs + i].tensor = sent2tensor(TokensOf(sents[i]))
            /\ target[bt + i].tensor = labs2tensor(LabelsOf(sents[i]))

Pairs(ds) == {iter(ds)[i] : i \in 1..Len(iter(ds))}

\* C10: source and target have the same length and hold, index by index,
\* the two halves of one example; shuffle keeps the pairs, len and bool.
C10_PairingInvariant ==
  /\ Len(source) = Len(target)
  /\ \A i \in 1..Len(source) : source[i].id = target[i].id
  /\ loaded.op = "shuffle" =>
       /\ Pairs(Dataset) = Pairs(loaded.before)
       /\ len(Dataset) = len(loaded.before)
       /\ bool(Dataset) = bool(loaded.before)

====
